---------------------------- MODULE Spec2Model ----------------------------
(***************************************************************************)
(* Model of the reel rendering endpoints of yogami/InstagramReelPoster:    *)
(*   scripts/beam_ffmpeg_v19.py     render_video, build_ffmpeg_command,    *)
(*                                  download_file, get_duration,           *)
(*                                  create_conclusion_slide                *)
(*   scripts/beam_ffmpeg_render.py  build_ffmpeg_command                   *)
(*                                                                         *)
(* Time is counted in tenths of a second (0.1 s = 1, 0.5 s = 5, 1.0 s =   *)
(* 10, 4.0 s = 40).  Probed voiceover durations are drawn from multiples   *)
(* of 6 s so that the equal share voiceover_duration / len(urls) of the    *)
(* multi-clip mode is exact for every clip count the model reaches.        *)
(*                                                                         *)
(* A compositor command is a sequence of [flag, arg] pairs in the order    *)
(* the source extends cmd; the -filter_complex argument is the sequence of *)
(* filter stages (the source joins them with ';'), each stage a record of  *)
(* the labels it reads, its filter chain and the labels it writes.         *)
(***************************************************************************)
EXTENDS Integers, Sequences, FiniteSets, TLC

VARIABLES
    script,              \* which endpoint runs: "v19" or "render"
    pc,                  \* position in render_video
    req,                 \* the request (the arguments of render_video)
    job_dir,             \* TRUE while /cache/render_<job_id> exists
    voiceover_path,
    voiceover_duration,
    music_path,
    subtitles_path,
    logo_path,
    visual_inputs,       \* list of [type, path, duration]
    slide,               \* what create_conclusion_slide drew
    total_visual_dur,
    cmd,                 \* the compositor command
    result,              \* outcome of subprocess.run(cmd)
    error,               \* the exception that leaves render_video
    video_url,           \* the returned artifact reference
    phases,              \* the phases performed so far, in order
    r_in,                \* beam_ffmpeg_render.py: arguments of build_ffmpeg_command
    r_cmd,               \* beam_ffmpeg_render.py: the command it returned
    workers,             \* concurrent runs of render_video: position, job_id
    cache,               \* the /cache volume: the render_<job_id> directories
    w_in,                \* beam_ffmpeg_render.py: arguments of wrap_text
    w_lines              \* beam_ffmpeg_render.py: the lines wrap_text returned

vars == <<script, pc, req, job_dir, voiceover_path, voiceover_duration,
          music_path, subtitles_path, logo_path, visual_inputs, slide,
          total_visual_dur, cmd, result, error, video_url, phases, r_in, r_cmd,
          workers, cache, w_in, w_lines>>

(* the state of one run of an endpoint, and the state shared by concurrent runs *)
pipeline == <<script, pc, req, job_dir, voiceover_path, voiceover_duration,
              music_path, subtitles_path, logo_path, visual_inputs, slide,
              total_visual_dur, cmd, result, error, video_url, phases, r_in, r_cmd>>
jobvars == <<workers, cache>>
wrapvars == <<w_in, w_lines>>

---------------------------------------------------------------------------
(* Bounds of the model *)

MaxClips == 2
MaxSegs == 2
MaxJobs == 2              \* runs of render_video in flight at once
MaxWords == 3             \* words of a text handed to wrap_text

(* Program constants, in tenths of a second unless said otherwise *)

MinSegDur == 1            \* max(end - start, 0.1)
PlaceholderDur == 10      \* a failed segment image: 'duration': 1.0
SlideDur == 40            \* conclusion slide: 'duration': 4.0
SafetyMargin == 5         \* adjustment = ... + 0.5
Fps == 24                 \* int(vis['duration'] * 24), frames per second
StderrTail == 500         \* result.stderr[-500:], characters
MinOutputSize == 1000     \* output_size < 1000, bytes
RenderMinDur == 1         \* beam_ffmpeg_render.py: max(duration, 0.1)

---------------------------------------------------------------------------
(* Values *)

Path(name, i) == [name |-> name, idx |-> i]
NoPath == Path("None", 0)
Unset == 0 - 1            \* a duration not computed yet

NoUrl == ""
None == "None"

Raise(exc) == [ok |-> FALSE, exc |-> exc, path |-> NoPath]
Ok(path) == [ok |-> TRUE, exc |-> None, path |-> path]

RECURSIVE SumDur(_)
SumDur(s) == IF s = <<>> THEN 0 ELSE Head(s).duration + SumDur(Tail(s))

Max(a, b) == IF a >= b THEN a ELSE b
Min(a, b) == IF a <= b THEN a ELSE b

SeqsUpTo(S, n) == UNION {[1..k -> S] : k \in 0..n}

Range(f) == {f[i] : i \in DOMAIN f}

---------------------------------------------------------------------------
(* beam_ffmpeg_v19.py: download_file.  A descriptor is "" (None or empty), *)
(* "undefined" in any letter case, a data: URI whose payload decodes or    *)
(* not, or a URL; net says whether requests.get answers with a 2xx status. *)
(* A "turbo:"-prefixed URL has no scheme requests can fetch.               *)

Lower(url) == IF url = "UNDEFINED" THEN "undefined" ELSE url
IsDataUri(url) == url \in {"data:ok", "data:bad"}
IsHttp(url) == url = "http:"

download_file(url, dest, net) ==
    IF url = NoUrl \/ Lower(url) = "undefined"
    THEN Raise("ValueError")
    ELSE IF IsDataUri(url)
         THEN IF url = "data:ok" THEN Ok(dest) ELSE Raise("DecodeError")
         ELSE IF IsHttp(url) /\ net THEN Ok(dest) ELSE Raise("RequestException")

(* url.replace("turbo:", "") if url else ""  and  url and "turbo:" in url *)
IsTurbo(url) == url \in {"turbo:http:", "turbo:"}
CleanUrl(url) == CASE url = "turbo:http:" -> "http:"
                   [] url = "turbo:" -> ""
                   [] OTHER -> url

---------------------------------------------------------------------------
(* The requests the model draws *)

VoDurations == {60, 120}
VoiceoverUrls == {NoUrl, "undefined", "UNDEFINED", "data:bad", "data:ok", "http:"}
OptUrls == {NoUrl, "undefined", "http:"}
ClipUrls == {"http:", "turbo:http:", NoUrl}
(* start and end of a segment: a plain window, end = start, end < start *)
SegWindows == {<<0, 60>>, <<30, 30>>, <<60, 30>>}
Segments == {[image_url |-> "http:", start |-> w[1], end |-> w[2]] : w \in SegWindows}

NoBranding == [given |-> FALSE, logoUrl |-> NoUrl, businessName |-> "absent"]
Brandings == {NoBranding} \cup
             [given : {TRUE}, logoUrl : {NoUrl, "http:"},
              businessName : {"absent", "null", "empty", "text"}]

Request(vo, mu, su, lo, br, clips, single, segs) ==
    [voiceover_url |-> vo, music_url |-> mu, subtitles_url |-> su,
     logo_url |-> lo, branding |-> br, animated_video_urls |-> clips,
     animated_video_url |-> single, segments |-> segs]

OneSeg == <<[image_url |-> "data:ok", start |-> 0, end |-> 30]>>

(* every optional-asset combination, over one visual request *)
AssetRequests ==
    {Request(vo, mu, su, lo, br, <<>>, NoUrl, OneSeg) :
        vo \in VoiceoverUrls, mu \in OptUrls, su \in OptUrls,
        lo \in {NoUrl, "http:"}, br \in Brandings}

(* every primary visual source, alone and with the fields of lower priority
   beside it, over a few optional-asset combinations *)
VisualFields ==
    {<<clips, low[1], low[2]>> :
        clips \in SeqsUpTo(ClipUrls, MaxClips) \ {<<>>},
        low \in {<<NoUrl, <<>>>>, <<"http:", OneSeg>>}}
    \cup {<<<<>>, single, segs>> :
        single \in {"http:", "turbo:http:"}, segs \in {<<>>, OneSeg}}
    \cup {<<<<>>, NoUrl, segs>> : segs \in SeqsUpTo(Segments, MaxSegs)}

VisualRequests ==
    {Request("http:", o, o, NoUrl, br, v[1], v[2], v[3]) :
        o \in {NoUrl, "data:ok"},
        br \in {NoBranding, [given |-> TRUE, logoUrl |-> NoUrl, businessName |-> "text"]},
        v \in VisualFields}

Requests == AssetRequests \cup VisualRequests

---------------------------------------------------------------------------
(* beam_ffmpeg_v19.py: render_video, lines 107-153: the visual inputs.     *)
(* net[i] says whether the fetch of the i-th visual asset succeeds.        *)

BlackImg == Path("black.png", 0)
Visual(type, path, duration) == [type |-> type, path |-> path, duration |-> duration]

(* lines 110-127: one entry per clip URL, each an equal share *)
ClipInput(url, i, clip_dur, net) ==
    LET is_turbo == url # NoUrl /\ IsTurbo(url)
        dest == IF is_turbo THEN Path("visual.png", i) ELSE Path("visual.mp4", i)
        got == download_file(CleanUrl(url), dest, net)
    IN  IF got.ok
        THEN Visual(IF is_turbo THEN "image" ELSE "video", got.path, clip_dur)
        ELSE Visual("image", BlackImg, clip_dur)

(* lines 129-136: one looped clip over the whole voiceover *)
SingleInput(url, vo_dur, net) ==
    LET got == download_file(url, Path("source_video.mp4", 0), net)
    IN  IF got.ok THEN Visual("video", got.path, vo_dur)
        ELSE Visual("image", BlackImg, vo_dur)

(* mutant: the window is taken as it is, without the 0.1 s floor *)
SegmentInputUnfloored(seg, i, net) ==
    LET got == download_file(seg.image_url, Path("image.png", i), net)
    IN  IF got.ok
        THEN Visual("image", got.path, seg.end - seg.start)
        ELSE Visual("image", BlackImg, PlaceholderDur)

(* lines 138-148: one entry per image segment *)
SegmentInput(seg, i, net) ==
    LET got == download_file(seg.image_url, Path("image.png", i), net)
    IN  IF got.ok
        THEN Visual("image", got.path, Max(seg.end - seg.start, MinSegDur))
        ELSE Visual("image", BlackImg, PlaceholderDur)

(* mutant: the image segments are looked at first *)
ModeSegmentsFirst(r) ==
    IF Len(r.segments) > 0 THEN "segments"
    ELSE IF Len(r.animated_video_urls) > 0 THEN "clips"
    ELSE IF r.animated_video_url # NoUrl THEN "single"
    ELSE "none"

Mode(r) ==
    IF Len(r.animated_video_urls) > 0 THEN "clips"
    ELSE IF r.animated_video_url # NoUrl THEN "single"
    ELSE IF Len(r.segments) > 0 THEN "segments"
    ELSE "none"

(* how many assets the selected mode fetches *)
NumFetches(r) ==
    CASE Mode(r) = "clips" -> Len(r.animated_video_urls)
      [] Mode(r) = "single" -> 1
      [] Mode(r) = "segments" -> Len(r.segments)
      [] OTHER -> 0

PrimaryInputs(r, vo_dur, net) ==
    CASE Mode(r) = "clips" ->
            [i \in 1..Len(r.animated_video_urls) |->
                ClipInput(r.animated_video_urls[i], i - 1,
                          vo_dur \div Len(r.animated_video_urls), net[i])]
      [] Mode(r) = "single" -> <<SingleInput(r.animated_video_url, vo_dur, net[1])>>
      [] Mode(r) = "segments" ->
            [i \in 1..Len(r.segments) |-> SegmentInput(r.segments[i], i - 1, net[i])]
      [] OTHER -> <<>>

(* mutant: no fallback *)
WithoutFallback(inputs, vo_dur) == inputs

(* lines 150-153: never an empty timeline *)
WithFallback(inputs, vo_dur) ==
    IF inputs = <<>> THEN <<Visual("image", BlackImg, vo_dur)>> ELSE inputs

(* mutant: the adjustment is assigned to the last duration, not added *)
ReconciledAssigns(inputs, vo_dur) ==
    LET total == SumDur(inputs)
    IN  IF total < vo_dur
        THEN [inputs EXCEPT ![Len(inputs)].duration = vo_dur - total + SafetyMargin]
        ELSE inputs

(* mutant: the shortfall is added without the 0.5 s margin *)
ReconciledNoMargin(inputs, vo_dur) ==
    LET total == SumDur(inputs)
    IN  IF total < vo_dur
        THEN [inputs EXCEPT ![Len(inputs)].duration = @ + (vo_dur - total)]
        ELSE inputs

(* mutant: a timeline longer than the voiceover is trimmed at its last entry *)
ReconciledTrims(inputs, vo_dur) ==
    LET total == SumDur(inputs)
    IN  IF total < vo_dur
        THEN [inputs EXCEPT ![Len(inputs)].duration = @ + (vo_dur - total + SafetyMargin)]
        ELSE [inputs EXCEPT ![Len(inputs)].duration = Max(@ - (total - vo_dur), MinSegDur)]

(* lines 162-168: extend the last visual when the total is short *)
Reconciled(inputs, vo_dur) ==
    LET total == SumDur(inputs)
    IN  IF total < vo_dur
        THEN [inputs EXCEPT ![Len(inputs)].duration = @ + (vo_dur - total + SafetyMargin)]
        ELSE inputs

(* lines 374-414: create_conclusion_slide.  A missing font file falls back
   to the built-in font and changes nothing else.  The logo is pasted when a
   logo file was resolved and decodes.  branding.get('businessName',
   'Thank You!') gives the default only when the key is absent: a null
   businessName makes name.upper() raise. *)
SlidePath == Path("conclusion_slide.png", 0)
NoSlide == [drawn |-> FALSE, logo |-> FALSE, name |-> None]
create_conclusion_slide(branding, logo, logo_decodes) ==
    IF branding.businessName = "null"
    THEN [ok |-> FALSE, exc |-> "AttributeError", slide |-> NoSlide]
    ELSE [ok |-> TRUE, exc |-> None,
          slide |-> [drawn |-> TRUE,
                     logo |-> (logo # NoPath /\ logo_decodes),
                     name |-> CASE branding.businessName = "absent" -> "THANK YOU!"
                                [] branding.businessName = "empty" -> ""
                                [] OTHER -> "TEXT"]]

---------------------------------------------------------------------------
(* beam_ffmpeg_v19.py: build_ffmpeg_command, lines 242-345 *)

Arg(flag, arg) == [flag |-> flag, arg |-> arg]
Label(name, i) == [name |-> name, idx |-> i]      \* [v0], [vconcat], [aout]
InPad(i, stream) == [name |-> stream, idx |-> i]  \* [2:v], [0:a]
Filter(name, args) == [name |-> name, args |-> args]
Stage(ins, chain, outs) == [ins |-> ins, chain |-> chain, outs |-> outs]

RECURSIVE Flatten(_)
Flatten(ss) == IF ss = <<>> THEN <<>> ELSE Head(ss) \o Flatten(Tail(ss))

(* lines 267-271: the input binding of one visual *)
VisualBinding(vis) ==
    IF vis.type = "image"
    THEN <<Arg("-loop", "1"), Arg("-t", vis.duration), Arg("-i", vis.path)>>
    ELSE <<Arg("-i", vis.path)>>

(* mutant: the stage of visual i reads input 1 + i, music or not *)
NormalizeStageFromOne(vis, i, visual_start_idx) ==
    IF vis.type = "image"
    THEN Stage(<<InPad(1 + i, ":v")>>,
               <<Filter("scale", "1280:2276:force_original_aspect_ratio=increase"),
                 Filter("crop", "1280:2276"),
                 Filter("zoompan", [z |-> "min(zoom+0.0015,1.5)",
                                    d |-> Max((vis.duration * Fps) \div 10, 1),
                                    s |-> "1080x1920"]),
                 Filter("setpts", "PTS-STARTPTS"),
                 Filter("format", "yuv420p")>>,
               <<Label("v", i)>>)
    ELSE Stage(<<InPad(1 + i, ":v")>>,
               <<Filter("scale", "1080:1920:force_original_aspect_ratio=decrease"),
                 Filter("pad", "1080:1920:(ow-iw)/2:(oh-ih)/2"),
                 Filter("setsar", "1"),
                 Filter("setpts", "PTS-STARTPTS"),
                 Filter("format", "yuv420p")>>,
               <<Label("v", i)>>)

(* lines 277-299: the normalization stage of visual i (from 0) *)
NumFrames(duration) == Max((duration * Fps) \div 10, 1)
NormalizeStage(vis, i, visual_start_idx) ==
    IF vis.type = "image"
    THEN Stage(<<InPad(visual_start_idx + i, ":v")>>,
               <<Filter("scale", "1280:2276:force_original_aspect_ratio=increase"),
                 Filter("crop", "1280:2276"),
                 Filter("zoompan", [z |-> "min(zoom+0.0015,1.5)",
                                    d |-> NumFrames(vis.duration),
                                    s |-> "1080x1920"]),
                 Filter("setpts", "PTS-STARTPTS"),
                 Filter("format", "yuv420p")>>,
               <<Label("v", i)>>)
    ELSE Stage(<<InPad(visual_start_idx + i, ":v")>>,
               <<Filter("scale", "1080:1920:force_original_aspect_ratio=decrease"),
                 Filter("pad", "1080:1920:(ow-iw)/2:(oh-ih)/2"),
                 Filter("setsar", "1"),
                 Filter("setpts", "PTS-STARTPTS"),
                 Filter("format", "yuv420p")>>,
               <<Label("v", i)>>)

(* lines 301-304 *)
ConcatStage(n) ==
    Stage([i \in 1..n |-> Label("v", i - 1)],
          <<Filter("concat", [n |-> n, v |-> 1, a |-> 0])>>,
          <<Label("vconcat", 0)>>)

(* mutant: the subtitles are burned into the first normalized visual *)
SubtitleStagesOnFirst(subs) ==
    IF subs # NoPath
    THEN <<Stage(<<Label("v", 0)>>,
                 <<Filter("subtitles", [file |-> subs, style |-> "FontName=Arial,FontSize=24"])>>,
                 <<Label("vsub", 0)>>)>>
    ELSE <<>>

(* lines 306-312 *)
SubtitleStages(subs) ==
    IF subs # NoPath
    THEN <<Stage(<<Label("vconcat", 0)>>,
                 <<Filter("subtitles", [file |-> subs, style |-> "FontName=Arial,FontSize=24"])>>,
                 <<Label("vsub", 0)>>)>>
    ELSE <<>>

(* mutant: the voiceover-only stage keeps the label it has in the music
   branch while -map still names [aout] *)
AudioStagesDangling(music) ==
    IF music # NoPath
    THEN <<Stage(<<InPad(0, ":a")>>,
                 <<Filter("aresample", "44100"), Filter("volume", "2.0"),
                   Filter("asplit", "2")>>,
                 <<Label("vo_sc", 0), Label("vo_main", 0)>>),
           Stage(<<InPad(1, ":a")>>,
                 <<Filter("aresample", "44100"), Filter("volume", "0.5")>>,
                 <<Label("bg", 0)>>),
           Stage(<<Label("bg", 0), Label("vo_sc", 0)>>,
                 <<Filter("sidechaincompress",
                          "threshold=0.15:ratio=3:attack=50:release=600")>>,
                 <<Label("bg_duck", 0)>>),
           Stage(<<Label("vo_main", 0), Label("bg_duck", 0)>>,
                 <<Filter("amix", [inputs |-> 2, duration |-> "first"])>>,
                 <<Label("aout", 0)>>)>>
    ELSE <<Stage(<<InPad(0, ":a")>>,
                 <<Filter("aresample", "44100"), Filter("volume", "2.0")>>,
                 <<Label("vo_main", 0)>>)>>

(* mutant: the side-chain inputs are swapped, the voiceover is compressed
   with the music as its key *)
AudioStagesKeySwapped(music) ==
    IF music # NoPath
    THEN <<Stage(<<InPad(0, ":a")>>,
                 <<Filter("aresample", "44100"), Filter("volume", "2.0"),
                   Filter("asplit", "2")>>,
                 <<Label("vo_sc", 0), Label("vo_main", 0)>>),
           Stage(<<InPad(1, ":a")>>,
                 <<Filter("aresample", "44100"), Filter("volume", "0.5")>>,
                 <<Label("bg", 0)>>),
           Stage(<<Label("vo_sc", 0), Label("bg", 0)>>,
                 <<Filter("sidechaincompress",
                          "threshold=0.15:ratio=3:attack=50:release=600")>>,
                 <<Label("bg_duck", 0)>>),
           Stage(<<Label("vo_main", 0), Label("bg_duck", 0)>>,
                 <<Filter("amix", [inputs |-> 2, duration |-> "first"])>>,
                 <<Label("aout", 0)>>)>>
    ELSE <<Stage(<<InPad(0, ":a")>>,
                 <<Filter("aresample", "44100"), Filter("volume", "2.0")>>,
                 <<Label("aout", 0)>>)>>

(* lines 314-325 *)
AudioStages(music) ==
    IF music # NoPath
    THEN <<Stage(<<InPad(0, ":a")>>,
                 <<Filter("aresample", "44100"), Filter("volume", "2.0"),
                   Filter("asplit", "2")>>,
                 <<Label("vo_sc", 0), Label("vo_main", 0)>>),
           Stage(<<InPad(1, ":a")>>,
                 <<Filter("aresample", "44100"), Filter("volume", "0.5")>>,
                 <<Label("bg", 0)>>),
           Stage(<<Label("bg", 0), Label("vo_sc", 0)>>,
                 <<Filter("sidechaincompress",
                          "threshold=0.15:ratio=3:attack=50:release=600")>>,
                 <<Label("bg_duck", 0)>>),
           Stage(<<Label("vo_main", 0), Label("bg_duck", 0)>>,
                 <<Filter("amix", [inputs |-> 2, duration |-> "first"])>>,
                 <<Label("aout", 0)>>)>>
    ELSE <<Stage(<<InPad(0, ":a")>>,
                 <<Filter("aresample", "44100"), Filter("volume", "2.0")>>,
                 <<Label("aout", 0)>>)>>

(* lines 335: the output clamp *)
OutputClamp(total_duration) == <<Arg("-t", total_duration)>>

EncodingArgs ==
    <<Arg("-c:v", "libx264"), Arg("-profile:v", "baseline"), Arg("-level", "3.0"),
      Arg("-preset", "veryfast"), Arg("-b:v", "2M"), Arg("-c:a", "aac"),
      Arg("-b:a", "128k"), Arg("-ar", "44100"), Arg("-ac", "2"),
      Arg("-pix_fmt", "yuv420p"), Arg("-movflags", "+faststart"), Arg("-f", "mp4")>>

build_ffmpeg_command(vo, music, subs, visuals, logo, total_duration, output_path) ==
    LET visual_start_idx == IF music # NoPath THEN 2 ELSE 1
        n == Len(visuals)
        video_tag == IF subs # NoPath THEN Label("vsub", 0) ELSE Label("vconcat", 0)
        audio_tag == Label("aout", 0)
        filter_parts ==
            [i \in 1..n |-> NormalizeStage(visuals[i], i - 1, visual_start_idx)]
            \o <<ConcatStage(n)>> \o SubtitleStages(subs) \o AudioStages(music)
    IN  <<Arg("ffmpeg", ""), Arg("-y", ""), Arg("-hide_banner", ""),
          Arg("-loglevel", "info"), Arg("-i", vo)>>
        \o (IF music # NoPath
            THEN <<Arg("-stream_loop", "-1"), Arg("-i", music)>> ELSE <<>>)
        \o Flatten([i \in 1..n |-> VisualBinding(visuals[i])])
        \o <<Arg("-filter_complex", filter_parts),
             Arg("-map", video_tag), Arg("-map", audio_tag)>>
        \o OutputClamp(total_duration)
        \o EncodingArgs
        \o <<Arg("output", output_path)>>

(* Reading a command *)
FilterGraph(c) == (CHOOSE i \in DOMAIN c : c[i].flag = "-filter_complex")
Stages(c) == c[FilterGraph(c)].arg
InputIdxs(c) == {i \in DOMAIN c : c[i].flag = "-i"}
MapIdxs(c) == {i \in DOMAIN c : c[i].flag = "-map"}
(* an option placed after the last input applies to the output *)
OutputClampIdxs(c) ==
    {i \in DOMAIN c : c[i].flag = "-t" /\ \A j \in InputIdxs(c) : j < i}
HasFilter(c, name) ==
    \E k \in DOMAIN Stages(c) : \E f \in DOMAIN Stages(c)[k].chain :
        Stages(c)[k].chain[f].name = name
StagesWith(c, name) ==
    {k \in DOMAIN Stages(c) : \E f \in DOMAIN Stages(c)[k].chain :
        Stages(c)[k].chain[f].name = name}

---------------------------------------------------------------------------
(* beam_ffmpeg_render.py: build_ffmpeg_command, lines 332-477 *)

RenderScale == Filter("scale", "1080:1920:force_original_aspect_ratio=decrease")
RenderNormalize ==
    <<RenderScale, Filter("pad", "1080:1920:(ow-iw)/2:(oh-ih)/2"),
      Filter("setsar", "1"), Filter("format", "yuv420p")>>

(* lines 378-380 *)
RenderImageDur(img) == Max(img.end - img.start, RenderMinDur)

(* lines 362-390: input bindings and stages of the visual pipeline *)
RenderVisualArgs(video_paths, image_paths) ==
    IF Len(video_paths) = 1
    THEN <<Arg("-stream_loop", "-1"), Arg("-i", video_paths[1])>>
    ELSE IF Len(video_paths) > 1
    THEN [i \in 1..Len(video_paths) |-> Arg("-i", video_paths[i])]
    ELSE Flatten([i \in 1..Len(image_paths) |->
                    <<Arg("-loop", "1"), Arg("-t", RenderImageDur(image_paths[i])),
                      Arg("-i", image_paths[i].path)>>])

RenderVisualStages(video_paths, image_paths, visual_input_start) ==
    IF Len(video_paths) = 1
    THEN <<Stage(<<InPad(visual_input_start, ":v")>>, RenderNormalize,
                 <<Label("vbase", 0)>>)>>
    ELSE IF Len(video_paths) > 1
    THEN [i \in 1..Len(video_paths) |->
            Stage(<<InPad(visual_input_start + i - 1, ":v")>>, RenderNormalize,
                  <<Label("v", i - 1)>>)]
         \o <<Stage([i \in 1..Len(video_paths) |-> Label("v", i - 1)],
                    <<Filter("concat", [n |-> Len(video_paths), v |-> 1, a |-> 0])>>,
                    <<Label("vbase", 0)>>)>>
    ELSE IF Len(image_paths) > 0
    THEN [i \in 1..Len(image_paths) |->
            Stage(<<InPad(visual_input_start + i - 1, ":v")>>, RenderNormalize,
                  <<Label("img", i - 1)>>)]
         \o <<Stage([i \in 1..Len(image_paths) |-> Label("img", i - 1)],
                    <<Filter("concat", [n |-> Len(image_paths), v |-> 1, a |-> 0])>>,
                    <<Label("vbase", 0)>>)>>
    ELSE <<Stage(<<>>, <<Filter("color", "c=black:s=1080x1920:d=10")>>,
                 <<Label("vbase", 0)>>)>>

(* lines 400-402 *)
RenderSubtitleStages(subs) ==
    IF subs # NoPath
    THEN <<Stage(<<Label("vbase", 0)>>,
                 <<Filter("subtitles", [file |-> subs, style |-> "FontName=Arial,FontSize=24"])>>,
                 <<Label("vburned", 0)>>)>>
    ELSE <<>>

(* lines 412-422 *)
RenderAudioStages(music) ==
    IF music # NoPath
    THEN <<Stage(<<InPad(1, ":a")>>, <<Filter("volume", "0.15")>>,
                 <<Label("bgmusic", 0)>>),
           Stage(<<InPad(0, ":a"), Label("bgmusic", 0)>>,
                 <<Filter("amix", [inputs |-> 2, duration |-> "longest"])>>,
                 <<Label("audio_mixed", 0)>>)>>
    ELSE <<Stage(<<InPad(0, ":a")>>, <<Filter("anull", "")>>,
                 <<Label("audio_out", 0)>>)>>

RECURSIVE RenderSumWindows(_)
RenderSumWindows(imgs) ==
    IF imgs = <<>> THEN 0
    ELSE (Head(imgs).end - Head(imgs).start) + RenderSumWindows(Tail(imgs))

(* lines 445-472: -t when the image windows sum to more than 0, else -shortest *)
RenderDurationArgs(image_paths) ==
    IF RenderSumWindows(image_paths) > 0
    THEN <<Arg("-t", RenderSumWindows(image_paths))>>
    ELSE <<Arg("-shortest", "")>>

render_build_ffmpeg_command(vo, music, subs, video_paths, image_paths, output_path) ==
    LET visual_input_start == IF music # NoPath THEN 2 ELSE 1
        last_vid_tag == IF subs # NoPath THEN Label("vburned", 0) ELSE Label("vbase", 0)
        audio_out == IF music # NoPath THEN Label("audio_mixed", 0)
                     ELSE Label("audio_out", 0)
    IN  <<Arg("ffmpeg", ""), Arg("-y", ""), Arg("-i", vo)>>
        \o (IF music # NoPath
            THEN <<Arg("-stream_loop", "-1"), Arg("-i", music)>> ELSE <<>>)
        \o RenderVisualArgs(video_paths, image_paths)
        \o <<Arg("-filter_complex",
                 RenderVisualStages(video_paths, image_paths, visual_input_start)
                 \o RenderSubtitleStages(subs) \o RenderAudioStages(music)),
             Arg("-map", last_vid_tag), Arg("-map", audio_out)>>
        \o RenderDurationArgs(image_paths)
        \o <<Arg("-c:v", "libx264"), Arg("-c:a", "aac"), Arg("-pix_fmt", "yuv420p"),
             Arg("-movflags", "+faststart"), Arg("output", output_path)>>

(* beam_ffmpeg_render.py: download_file, lines 310-329: the destination, or
   None when no URL is given or anything in the fetch raises *)
render_download_file(dest, ok) ==
    IF dest = NoPath THEN NoPath
    ELSE IF ok THEN dest ELSE NoPath

(* the assets a request of render_video names, each by the destination its
   download is given (NoPath: no URL given), and the length of the voiceover
   file, which neither render_video nor the builder probes *)
RenderInputs ==
    [voiceover_duration : VoDurations,
     voiceover_path : {Path("voiceover.mp3", 0)},
     music_path : {NoPath, Path("music.mp3", 0)},
     subtitles_path : {NoPath, Path("subtitles.srt", 0)},
     video_paths : {[i \in 1..k |-> Path("video.mp4", i - 1)] : k \in 0..MaxClips},
     image_paths : {[i \in 1..Len(ws) |->
                        [path |-> Path("image.png", i - 1),
                         start |-> ws[i][1], end |-> ws[i][2]]] :
                    ws \in SeqsUpTo(SegWindows, MaxSegs)}]
NoRenderInput ==
    [voiceover_duration |-> Unset, voiceover_path |-> NoPath, music_path |-> NoPath, subtitles_path |-> NoPath,
     video_paths |-> <<>>, image_paths |-> <<>>]

---------------------------------------------------------------------------
(* beam_ffmpeg_render.py: wrap_text, lines 274-307.  A text is the sequence
   of the words text.split() gives, a line the sequence of the words joined
   by single spaces.  The width of a line is font.getlength(line_str), or
   len(line_str) * 15 when the font has no getlength; a font is modelled by
   the width it gives a character. *)

Words == {"a", "bbbb", "cccccccccc"}
Chars(word) == CASE word = "a" -> 1 [] word = "bbbb" -> 4 [] OTHER -> 10
RECURSIVE LineChars(_)
LineChars(line) ==
    IF line = <<>> THEN 0
    ELSE Chars(Head(line)) + (IF Len(line) > 1 THEN 1 ELSE 0) + LineChars(Tail(line))
Fonts == {15, 28}
Width(font, line) == LineChars(line) * font
Budgets == {60, 100, 900}

(* mutant: the word that did not fit is not carried to the next line *)
WrapStepDropsWord(st, word, font, max_width) ==
    LET current_line == Append(st.current_line, word)
    IN  IF Width(font, current_line) > max_width
        THEN IF Len(current_line) = 1
             THEN [current_line |-> <<>>, lines |-> Append(st.lines, current_line)]
             ELSE [current_line |-> <<>>, lines |-> Append(st.lines, st.current_line)]
        ELSE [current_line |-> current_line, lines |-> st.lines]

(* lines 285-302: one pass of the loop over the words *)
WrapStep(st, word, font, max_width) ==
    LET current_line == Append(st.current_line, word)
    IN  IF Width(font, current_line) > max_width
        THEN IF Len(current_line) = 1
             THEN [current_line |-> <<>>, lines |-> Append(st.lines, current_line)]
             ELSE [current_line |-> <<word>>, lines |-> Append(st.lines, st.current_line)]
        ELSE [current_line |-> current_line, lines |-> st.lines]

RECURSIVE WrapLoop(_, _, _, _)
WrapLoop(st, words, font, max_width) ==
    IF words = <<>> THEN st
    ELSE WrapLoop(WrapStep(st, Head(words), font, max_width), Tail(words),
                  font, max_width)

wrap_text(text, font, max_width) ==
    IF text = <<>> THEN <<>>
    ELSE LET st == WrapLoop([current_line |-> <<>>, lines |-> <<>>], text,
                            font, max_width)
         IN  IF st.current_line # <<>> THEN Append(st.lines, st.current_line)
             ELSE st.lines

WrapInputs == [text : SeqsUpTo(Words, MaxWords), font : Fonts, max_width : Budgets]
NoWrapInput == [text |-> <<>>, font |-> 15, max_width |-> 900]

---------------------------------------------------------------------------
(* State after construction *)

NoError == [type |-> None, msg |-> "", tail |-> 0]
Exception(type, msg, tail) == [type |-> type, msg |-> msg, tail |-> tail]
NoResult == [returncode |-> Unset, stderr_len |-> 0, out_size |-> Unset,
             probe |-> "unprobed", cloudinary |-> "unread"]

(* what the environment can answer *)
StderrLens == {200, 2000}          \* len(result.stderr) of a failed run
OutSizes == {Unset, 999, 1000}     \* os.path.getsize; Unset: no output file
(* the re-probe of the output, lines 202-209: its stdout names mp4 or h264,
   names neither, or ffprobe exits non-zero with nothing on stdout *)
ProbeOutcomes == {"valid", "invalid", "failed"}

(* beam_ffmpeg_v19.py, line 58: job_id = str(uuid.uuid4())[:8], eight
   hexadecimal characters of a random UUID; the model draws from two values *)
JobIds == {"1a2b3c4d", "9f8e7d6c"}
Workers == 1..MaxJobs
NoJob == [pc |-> "idle", job_id |-> None, error |-> None, read |-> {}]
(* a directory /cache/render_<job_id>: whether it exists and the files in it,
   each with the run that wrote it *)
NoDir == [exists |-> FALSE, files |-> {}]
File(name, w) == [name |-> name, by |-> w]
IdleJobs ==
    /\ workers = [w \in Workers |-> NoJob]
    /\ cache = [id \in JobIds |-> NoDir]
    /\ w_in = NoWrapInput
    /\ w_lines = <<>>

IdleV19 ==
    /\ req = Request(NoUrl, NoUrl, NoUrl, NoUrl, NoBranding, <<>>, NoUrl, <<>>)
    /\ job_dir = FALSE
    /\ voiceover_path = NoPath
    /\ voiceover_duration = Unset
    /\ music_path = NoPath
    /\ subtitles_path = NoPath
    /\ logo_path = NoPath
    /\ visual_inputs = <<>>
    /\ slide = NoSlide
    /\ total_visual_dur = Unset
    /\ cmd = <<>>
    /\ result = NoResult
    /\ error = NoError
    /\ video_url = None
    /\ phases = <<>>

InitV19 ==
    /\ script = "v19"
    /\ pc = "start"
    /\ req \in Requests
    /\ job_dir = FALSE
    /\ voiceover_path = NoPath
    /\ voiceover_duration = Unset
    /\ music_path = NoPath
    /\ subtitles_path = NoPath
    /\ logo_path = NoPath
    /\ visual_inputs = <<>>
    /\ slide = NoSlide
    /\ total_visual_dur = Unset
    /\ cmd = <<>>
    /\ result = NoResult
    /\ error = NoError
    /\ video_url = None
    /\ phases = <<>>
    /\ r_in = NoRenderInput
    /\ r_cmd = <<>>
    /\ IdleJobs

InitRender ==
    /\ script = "render"
    /\ pc = "r_fetch"
    /\ IdleV19
    /\ r_in \in RenderInputs
    /\ r_cmd = <<>>
    /\ IdleJobs

(* several runs of render_video on workers that share the /cache volume *)
InitJobs ==
    /\ script = "jobs"
    /\ pc = "jobs"
    /\ IdleV19
    /\ r_in = NoRenderInput
    /\ r_cmd = <<>>
    /\ IdleJobs

(* wrap_text applied to a text *)
InitWrap ==
    /\ script = "wrap"
    /\ pc = "w_wrap"
    /\ IdleV19
    /\ r_in = NoRenderInput
    /\ r_cmd = <<>>
    /\ workers = [w \in Workers |-> NoJob]
    /\ cache = [id \in JobIds |-> NoDir]
    /\ w_in \in WrapInputs
    /\ w_lines = <<>>

Init == InitV19 \/ InitRender \/ InitJobs \/ InitWrap

---------------------------------------------------------------------------
(* beam_ffmpeg_v19.py: render_video, one action per numbered step *)

(* an exception inside the try block: the except clause re-raises it and the
   finally clause runs next *)
Fail(exc) ==
    /\ error' = exc
    /\ pc' = "finally"

(* lines 58-66 *)
Start ==
    /\ script = "v19" /\ pc = "start"
    /\ job_dir' = TRUE
    /\ pc' = "voiceover"
    /\ UNCHANGED <<script, req, voiceover_path, voiceover_duration, music_path,
                   subtitles_path, logo_path, visual_inputs, slide,
                   total_visual_dur, cmd, result, error, video_url, phases,
                   r_in, r_cmd, workers, cache, w_in, w_lines>>

(* mutant: a failed voiceover download is tolerated like an optional asset *)
DownloadVoiceoverTolerant ==
    /\ script = "v19" /\ pc = "voiceover"
    /\ phases' = Append(phases, "voiceover")
    /\ \E net \in BOOLEAN :
        LET got == download_file(req.voiceover_url, Path("voiceover.mp3", 0), net)
        IN  voiceover_path' = got.path
    /\ pc' = "probe"
    /\ UNCHANGED <<script, req, job_dir, voiceover_duration, music_path,
                   subtitles_path, logo_path, visual_inputs, slide,
                   total_visual_dur, cmd, result, error, video_url, r_in, r_cmd, workers, cache, w_in, w_lines>>

(* line 70 *)
DownloadVoiceover ==
    /\ script = "v19" /\ pc = "voiceover"
    /\ phases' = Append(phases, "voiceover")
    /\ \E net \in BOOLEAN :
        LET got == download_file(req.voiceover_url, Path("voiceover.mp3", 0), net)
        IN  IF got.ok
            THEN /\ voiceover_path' = got.path
                 /\ pc' = "probe"
                 /\ error' = error
            ELSE /\ Fail(Exception(got.exc, "download_file", 0))
                 /\ voiceover_path' = voiceover_path
    /\ UNCHANGED <<script, req, job_dir, voiceover_duration, music_path,
                   subtitles_path, logo_path, visual_inputs, slide,
                   total_visual_dur, cmd, result, video_url, r_in, r_cmd, workers, cache, w_in, w_lines>>

(* mutant: the duration is taken without probing the voiceover *)
GetDurationUnprobed ==
    /\ script = "v19" /\ pc = "probe"
    /\ \E d \in VoDurations : voiceover_duration' = d
    /\ pc' = "music"
    /\ UNCHANGED <<script, req, job_dir, voiceover_path, music_path,
                   subtitles_path, logo_path, visual_inputs, slide,
                   total_visual_dur, cmd, result, error, video_url, phases,
                   r_in, r_cmd, workers, cache, w_in, w_lines>>

(* line 71 and get_duration, lines 348-353: ffprobe answers a duration, or
   exits non-zero or prints no number *)
GetDuration ==
    /\ script = "v19" /\ pc = "probe"
    /\ phases' = Append(phases, "probe")
    /\ \/ \E d \in VoDurations :
            /\ voiceover_duration' = d
            /\ pc' = "music"
            /\ error' = error
       \/ /\ Fail(Exception("ProbeError", "get_duration", 0))
          /\ voiceover_duration' = voiceover_duration
    /\ UNCHANGED <<script, req, job_dir, voiceover_path, music_path,
                   subtitles_path, logo_path, visual_inputs, slide,
                   total_visual_dur, cmd, result, video_url, r_in, r_cmd, workers, cache, w_in, w_lines>>

(* an optional asset, lines 74-100: absent when no URL is given or the
   download raises *)
Optional(url, dest, net) ==
    IF url # NoUrl /\ download_file(url, dest, net).ok THEN dest ELSE NoPath

(* mutant: the music download is not wrapped in try/except *)
DownloadMusicStrict ==
    /\ script = "v19" /\ pc = "music"
    /\ phases' = Append(phases, "music")
    /\ \E net \in BOOLEAN :
        LET got == download_file(req.music_url, Path("music.mp3", 0), net)
        IN  IF req.music_url = NoUrl \/ got.ok
            THEN /\ music_path' = IF req.music_url = NoUrl THEN NoPath ELSE got.path
                 /\ pc' = "subtitles"
                 /\ error' = error
            ELSE /\ Fail(Exception(got.exc, "download_file", 0))
                 /\ music_path' = music_path
    /\ UNCHANGED <<script, req, job_dir, voiceover_path, voiceover_duration,
                   subtitles_path, logo_path, visual_inputs, slide,
                   total_visual_dur, cmd, result, video_url, r_in, r_cmd, workers, cache, w_in, w_lines>>

(* lines 74-81 *)
DownloadMusic ==
    /\ script = "v19" /\ pc = "music"
    /\ phases' = Append(phases, "music")
    /\ \E net \in BOOLEAN :
        music_path' = Optional(req.music_url, Path("music.mp3", 0), net)
    /\ pc' = "subtitles"
    /\ UNCHANGED <<script, req, job_dir, voiceover_path, voiceover_duration,
                   subtitles_path, logo_path, visual_inputs, slide,
                   total_visual_dur, cmd, result, error, video_url, r_in, r_cmd, workers, cache, w_in, w_lines>>

(* lines 83-90 *)
DownloadSubtitles ==
    /\ script = "v19" /\ pc = "subtitles"
    /\ phases' = Append(phases, "subtitles")
    /\ \E net \in BOOLEAN :
        subtitles_path' = Optional(req.subtitles_url, Path("subtitles.srt", 0), net)
    /\ pc' = "logo"
    /\ UNCHANGED <<script, req, job_dir, voiceover_path, voiceover_duration,
                   music_path, logo_path, visual_inputs, slide,
                   total_visual_dur, cmd, result, error, video_url, r_in, r_cmd, workers, cache, w_in, w_lines>>

(* line 94 *)
PrimaryLogoUrl(r) ==
    IF r.branding.given /\ r.branding.logoUrl # NoUrl
    THEN r.branding.logoUrl ELSE r.logo_url

(* lines 92-100 *)
DownloadLogo ==
    /\ script = "v19" /\ pc = "logo"
    /\ phases' = Append(phases, "logo")
    /\ \E net \in BOOLEAN :
        logo_path' = Optional(PrimaryLogoUrl(req), Path("logo.png", 0), net)
    /\ pc' = "visuals"
    /\ UNCHANGED <<script, req, job_dir, voiceover_path, voiceover_duration,
                   music_path, subtitles_path, visual_inputs, slide,
                   total_visual_dur, cmd, result, error, video_url, r_in, r_cmd, workers, cache, w_in, w_lines>>

(* lines 102-153 *)
ProcessVisuals ==
    /\ script = "v19" /\ pc = "visuals"
    /\ phases' = Append(phases, "visuals")
    /\ \E net \in [1..NumFetches(req) -> BOOLEAN] :
        visual_inputs' =
            WithFallback(PrimaryInputs(req, voiceover_duration, net), voiceover_duration)
    /\ pc' = "slide"
    /\ UNCHANGED <<script, req, job_dir, voiceover_path, voiceover_duration,
                   music_path, subtitles_path, logo_path, slide,
                   total_visual_dur, cmd, result, error, video_url, r_in, r_cmd, workers, cache, w_in, w_lines>>

(* lines 155-160 *)
AddConclusionSlide ==
    /\ script = "v19" /\ pc = "slide"
    /\ phases' = Append(phases, "slide")
    /\ IF req.branding.given
       THEN \E logo_decodes \in BOOLEAN :
            LET made == create_conclusion_slide(req.branding, logo_path, logo_decodes)
            IN  IF made.ok
                THEN /\ slide' = made.slide
                     /\ visual_inputs' =
                            Append(visual_inputs, Visual("image", SlidePath, SlideDur))
                     /\ pc' = "reconcile"
                     /\ error' = error
                ELSE /\ Fail(Exception(made.exc, "create_conclusion_slide", 0))
                     /\ UNCHANGED <<slide, visual_inputs>>
       ELSE /\ pc' = "reconcile"
            /\ UNCHANGED <<slide, visual_inputs, error>>
    /\ UNCHANGED <<script, req, job_dir, voiceover_path, voiceover_duration,
                   music_path, subtitles_path, logo_path,
                   total_visual_dur, cmd, result, video_url, r_in, r_cmd, workers, cache, w_in, w_lines>>

(* mutant: the total is not summed again after the adjustment *)
ReconcileStaleTotal ==
    /\ script = "v19" /\ pc = "reconcile"
    /\ phases' = Append(phases, "reconcile")
    /\ visual_inputs' = Reconciled(visual_inputs, voiceover_duration)
    /\ total_visual_dur' = SumDur(visual_inputs)
    /\ pc' = "build"
    /\ UNCHANGED <<script, req, job_dir, voiceover_path, voiceover_duration,
                   music_path, subtitles_path, logo_path, slide,
                   cmd, result, error, video_url, r_in, r_cmd, workers, cache, w_in, w_lines>>

(* lines 162-170 *)
Reconcile ==
    /\ script = "v19" /\ pc = "reconcile"
    /\ phases' = Append(phases, "reconcile")
    /\ visual_inputs' = Reconciled(visual_inputs, voiceover_duration)
    /\ total_visual_dur' = SumDur(visual_inputs')
    /\ pc' = "build"
    /\ UNCHANGED <<script, req, job_dir, voiceover_path, voiceover_duration,
                   music_path, subtitles_path, logo_path, slide,
                   cmd, result, error, video_url, r_in, r_cmd, workers, cache, w_in, w_lines>>

(* lines 172-184 *)
BuildCommand ==
    /\ script = "v19" /\ pc = "build"
    /\ phases' = Append(phases, "build")
    /\ cmd' = build_ffmpeg_command(voiceover_path, music_path, subtitles_path,
                                   visual_inputs, logo_path, total_visual_dur,
                                   Path("output.mp4", 0))
    /\ pc' = "run"
    /\ UNCHANGED <<script, req, job_dir, voiceover_path, voiceover_duration,
                   music_path, subtitles_path, logo_path, visual_inputs, slide,
                   total_visual_dur, result, error, video_url, r_in, r_cmd, workers, cache, w_in, w_lines>>

(* line 191: raise Exception(f"FFmpeg failed: {result.stderr[-500:]}") *)
FFmpegFailed(stderr_len) ==
    Exception("Exception", "FFmpeg failed", Min(stderr_len, StderrTail))

(* line 186: subprocess.run(..., timeout=540) raises when the time is up *)
RunTimedOut == Exception("TimeoutExpired", "subprocess.run", 0)

(* mutant: the return code is not checked *)
RunFFmpegUnchecked ==
    /\ script = "v19" /\ pc = "run"
    /\ phases' = Append(phases, "run")
    /\ \/ /\ Fail(RunTimedOut)
          /\ result' = result
       \/ \E n \in StderrLens, size \in OutSizes :
            /\ result' = [result EXCEPT !.returncode = 1, !.stderr_len = n,
                                        !.out_size = size]
            /\ pc' = "validate"
            /\ error' = error
       \/ \E size \in OutSizes :
            /\ result' = [result EXCEPT !.returncode = 0, !.out_size = size]
            /\ pc' = "validate"
            /\ error' = error
    /\ UNCHANGED <<script, req, job_dir, voiceover_path, voiceover_duration,
                   music_path, subtitles_path, logo_path, visual_inputs, slide,
                   total_visual_dur, cmd, video_url, r_in, r_cmd, workers, cache, w_in, w_lines>>

(* lines 186-191 *)
RunFFmpeg ==
    /\ script = "v19" /\ pc = "run"
    /\ phases' = Append(phases, "run")
    /\ \/ /\ Fail(RunTimedOut)
          /\ result' = result
       \/ \E n \in StderrLens :
            /\ result' = [result EXCEPT !.returncode = 1, !.stderr_len = n]
            /\ Fail(FFmpegFailed(n))
       \/ \E size \in OutSizes :
            /\ result' = [result EXCEPT !.returncode = 0, !.out_size = size]
            /\ pc' = "validate"
            /\ error' = error
    /\ UNCHANGED <<script, req, job_dir, voiceover_path, voiceover_duration,
                   music_path, subtitles_path, logo_path, visual_inputs, slide,
                   total_visual_dur, cmd, video_url, r_in, r_cmd, workers, cache, w_in, w_lines>>

(* mutant: the size floor is not checked *)
ValidateOutputSkipsSize ==
    /\ script = "v19" /\ pc = "validate"
    /\ phases' = Append(phases, "validate")
    /\ IF result.out_size = Unset
       THEN /\ Fail(Exception("Exception", "Output file does not exist", 0))
            /\ result' = result
       ELSE /\ \E p \in ProbeOutcomes :
                result' = [result EXCEPT !.probe = p]
            /\ pc' = "upload"
            /\ error' = error
    /\ UNCHANGED <<script, req, job_dir, voiceover_path, voiceover_duration,
                   music_path, subtitles_path, logo_path, visual_inputs, slide,
                   total_visual_dur, cmd, video_url, r_in, r_cmd, workers, cache, w_in, w_lines>>

(* lines 193-211: the re-probe of the output only prints a warning *)
ValidateOutput ==
    /\ script = "v19" /\ pc = "validate"
    /\ phases' = Append(phases, "validate")
    /\ IF result.out_size = Unset
       THEN /\ Fail(Exception("Exception", "Output file does not exist", 0))
            /\ result' = result
       ELSE IF result.out_size < MinOutputSize
       THEN /\ Fail(Exception("Exception", "Output file too small", 0))
            /\ result' = result
       ELSE /\ \E p \in ProbeOutcomes :
                result' = [result EXCEPT !.probe = p]
            /\ pc' = "upload"
            /\ error' = error
    /\ UNCHANGED <<script, req, job_dir, voiceover_path, voiceover_duration,
                   music_path, subtitles_path, logo_path, visual_inputs, slide,
                   total_visual_dur, cmd, video_url, r_in, r_cmd, workers, cache, w_in, w_lines>>

(* lines 213-232: upload when CLOUDINARY_URL is set, else inline base64 *)
Upload ==
    /\ script = "v19" /\ pc = "upload"
    /\ phases' = Append(phases, "upload")
    /\ \/ /\ result' = [result EXCEPT !.cloudinary = "set"]
          /\ \/ /\ video_url' = "https://res.cloudinary.com/re_job"
                /\ pc' = "finally"
                /\ error' = error
             \/ /\ Fail(Exception("UploadError", "cloudinary.uploader.upload", 0))
                /\ video_url' = video_url
       \/ /\ result' = [result EXCEPT !.cloudinary = "unset"]
          /\ video_url' = "data:video/mp4;base64"
          /\ pc' = "finally"
          /\ error' = error
    /\ UNCHANGED <<script, req, job_dir, voiceover_path, voiceover_duration,
                   music_path, subtitles_path, logo_path, visual_inputs, slide,
                   total_visual_dur, cmd, r_in, r_cmd, workers, cache, w_in, w_lines>>

(* mutant: the cleanup sits at the end of the try block, not in finally *)
FinallyOnSuccessOnly ==
    /\ script = "v19" /\ pc = "finally"
    /\ phases' = Append(phases, "cleanup")
    /\ job_dir' = (error # NoError)
    /\ pc' = IF error = NoError THEN "Succeeded" ELSE "Failed"
    /\ UNCHANGED <<script, req, voiceover_path, voiceover_duration,
                   music_path, subtitles_path, logo_path, visual_inputs, slide,
                   total_visual_dur, cmd, result, error, video_url, r_in, r_cmd, workers, cache, w_in, w_lines>>

(* lines 237-239: shutil.rmtree(job_dir, ignore_errors=True), then the
   return value or the exception reaches the caller *)
Finally ==
    /\ script = "v19" /\ pc = "finally"
    /\ phases' = Append(phases, "cleanup")
    /\ job_dir' = FALSE
    /\ pc' = IF error = NoError THEN "Succeeded" ELSE "Failed"
    /\ UNCHANGED <<script, req, voiceover_path, voiceover_duration,
                   music_path, subtitles_path, logo_path, visual_inputs, slide,
                   total_visual_dur, cmd, result, error, video_url, r_in, r_cmd, workers, cache, w_in, w_lines>>

---------------------------------------------------------------------------
(* beam_ffmpeg_render.py: the builder applied to the drawn arguments *)

(* render_video, lines 73-102: every asset is fetched with download_file and
   its result, the path or None, is what the builder is handed *)
RenderDownload ==
    /\ script = "render" /\ pc = "r_fetch"
    /\ \E vo, mu, su \in BOOLEAN :
       \E vnet \in [DOMAIN r_in.video_paths -> BOOLEAN] :
       \E inet \in [DOMAIN r_in.image_paths -> BOOLEAN] :
        r_in' = [r_in EXCEPT
            !.voiceover_path = render_download_file(@, vo),
            !.music_path = render_download_file(@, mu),
            !.subtitles_path = render_download_file(@, su),
            !.video_paths = [i \in DOMAIN @ |-> render_download_file(@[i], vnet[i])],
            !.image_paths = [i \in DOMAIN @ |->
                [@[i] EXCEPT !.path = render_download_file(@, inet[i])]]]
    /\ pc' = "r_build"
    /\ UNCHANGED <<script, req, job_dir, voiceover_path, voiceover_duration,
                   music_path, subtitles_path, logo_path, visual_inputs, slide,
                   total_visual_dur, cmd, result, error, video_url, phases,
                   r_cmd, workers, cache, w_in, w_lines>>

(* render_video, lines 145-156 *)
RenderBuild ==
    /\ script = "render" /\ pc = "r_build"
    /\ r_cmd' = render_build_ffmpeg_command(
                    r_in.voiceover_path, r_in.music_path, r_in.subtitles_path,
                    r_in.video_paths, r_in.image_paths, Path("output.mp4", 0))
    /\ pc' = "r_built"
    /\ UNCHANGED <<script, req, job_dir, voiceover_path, voiceover_duration,
                   music_path, subtitles_path, logo_path, visual_inputs, slide,
                   total_visual_dur, cmd, result, error, video_url, phases, r_in,
                   workers, cache, w_in, w_lines>>

---------------------------------------------------------------------------
(* beam_ffmpeg_v19.py: render_video run by several workers at once; the steps
   of one run that touch its job directory, in any interleaving *)

JobDir(w) == cache[workers[w].job_id]
HasFile(dir, name) == dir.exists /\ \E f \in dir.files : f.name = name
Owners(dir, name) == {f.by : f \in {g \in dir.files : g.name = name}}
(* open(dest, 'wb') and the compositor replace a file of the same name *)
WriteFile(dir, name, w) ==
    [dir EXCEPT !.files = {f \in @ : f.name # name} \cup {File(name, w)}]
JobFail(w, exc) ==
    workers' = [workers EXCEPT ![w].pc = "finally", ![w].error = exc]

(* lines 58-60: os.makedirs(job_dir, exist_ok=True) accepts a directory that
   is already there, with what it holds *)
JobStart(w) ==
    /\ script = "jobs" /\ workers[w].pc = "idle"
    /\ \E id \in JobIds :
        /\ workers' = [workers EXCEPT ![w].pc = "download", ![w].job_id = id]
        /\ cache' = [cache EXCEPT ![id].exists = TRUE]
    /\ UNCHANGED pipeline
    /\ UNCHANGED wrapvars

(* line 70 and download_file: the voiceover is written into the job directory *)
JobDownload(w) ==
    /\ script = "jobs" /\ workers[w].pc = "download"
    /\ IF JobDir(w).exists
       THEN /\ cache' = [cache EXCEPT ![workers[w].job_id] =
                            WriteFile(@, "voiceover.mp3", w)]
            /\ workers' = [workers EXCEPT ![w].pc = "render"]
       ELSE /\ JobFail(w, "FileNotFoundError")
            /\ cache' = cache
    /\ UNCHANGED pipeline
    /\ UNCHANGED wrapvars

(* lines 186-191: the compositor reads the voiceover and writes output.mp4 *)
JobRender(w) ==
    /\ script = "jobs" /\ workers[w].pc = "render"
    /\ IF HasFile(JobDir(w), "voiceover.mp3")
       THEN /\ cache' = [cache EXCEPT ![workers[w].job_id] =
                            WriteFile(@, "output.mp4", w)]
            /\ workers' = [workers EXCEPT
                    ![w].pc = "upload",
                    ![w].read = @ \cup Owners(JobDir(w), "voiceover.mp3")]
       ELSE /\ JobFail(w, "FFmpeg failed")
            /\ cache' = cache
    /\ UNCHANGED pipeline
    /\ UNCHANGED wrapvars

(* lines 193-232: the output is checked, then read for the upload *)
JobUpload(w) ==
    /\ script = "jobs" /\ workers[w].pc = "upload"
    /\ IF HasFile(JobDir(w), "output.mp4")
       THEN workers' = [workers EXCEPT
                    ![w].pc = "finally",
                    ![w].read = @ \cup Owners(JobDir(w), "output.mp4")]
       ELSE JobFail(w, "Output file does not exist")
    /\ cache' = cache
    /\ UNCHANGED pipeline
    /\ UNCHANGED wrapvars

(* lines 237-239: shutil.rmtree(job_dir, ignore_errors=True) *)
JobFinally(w) ==
    /\ script = "jobs" /\ workers[w].pc = "finally"
    /\ cache' = [cache EXCEPT ![workers[w].job_id] = NoDir]
    /\ workers' = [workers EXCEPT ![w].pc = "done"]
    /\ UNCHANGED pipeline
    /\ UNCHANGED wrapvars

(* beam_ffmpeg_render.py: wrap_text applied to the drawn arguments *)
WrapText ==
    /\ script = "wrap" /\ pc = "w_wrap"
    /\ w_lines' = wrap_text(w_in.text, w_in.font, w_in.max_width)
    /\ pc' = "w_done"
    /\ UNCHANGED <<script, req, job_dir, voiceover_path, voiceover_duration,
                   music_path, subtitles_path, logo_path, visual_inputs, slide,
                   total_visual_dur, cmd, result, error, video_url, phases,
                   r_in, r_cmd, workers, cache, w_in>>

---------------------------------------------------------------------------

Next ==
    \/ Start
    \/ DownloadVoiceover
    \/ GetDuration
    \/ DownloadMusic
    \/ DownloadSubtitles
    \/ DownloadLogo
    \/ ProcessVisuals
    \/ AddConclusionSlide
    \/ Reconcile
    \/ BuildCommand
    \/ RunFFmpeg
    \/ ValidateOutput
    \/ Upload
    \/ Finally
    \/ RenderDownload
    \/ RenderBuild
    \/ \E w \in Workers : JobStart(w)
    \/ \E w \in Workers : JobDownload(w)
    \/ \E w \in Workers : JobRender(w)
    \/ \E w \in Workers : JobUpload(w)
    \/ \E w \in Workers : JobFinally(w)
    \/ WrapText

Spec == Init /\ [][Next]_vars

---------------------------------------------------------------------------
(* Reading a state *)

Did(phase) == \E i \in DOMAIN phases : phases[i] = phase
V19 == script = "v19"
Built == V19 /\ cmd # <<>>
Terminal == pc \in {"Succeeded", "Failed"}
Failing == pc \in {"finally", "Failed"} /\ error # NoError

(* the timeline without the conclusion slide *)
Primary(inputs) ==
    IF slide.drawn THEN SubSeq(inputs, 1, Len(inputs) - 1) ELSE inputs

(* the input pads a label is computed from *)
RECURSIVE Origins(_, _)
Origins(c, l) ==
    IF l.name \in {":v", ":a"} THEN {l}
    ELSE UNION {UNION {Origins(c, Stages(c)[k].ins[j]) : j \in DOMAIN Stages(c)[k].ins} :
                k \in {k \in DOMAIN Stages(c) :
                        \E o \in DOMAIN Stages(c)[k].outs : Stages(c)[k].outs[o] = l}}

LabelsRead(c) ==
    UNION {Range(Stages(c)[k].ins) : k \in DOMAIN Stages(c)}
    \cup {c[i].arg : i \in MapIdxs(c)}
LabelsWritten(c) == UNION {Range(Stages(c)[k].outs) : k \in DOMAIN Stages(c)}
IsPad(l) == l.name \in {":v", ":a"}
InFlight(w) == workers[w].pc \notin {"idle", "done"}
VideoMap(c) == c[CHOOSE i \in MapIdxs(c) : \A j \in MapIdxs(c) : i <= j].arg
AudioMap(c) == c[CHOOSE i \in MapIdxs(c) : \A j \in MapIdxs(c) : j <= i].arg

---------------------------------------------------------------------------
(* Claims *)

(* C1: in every input mode, under every pattern of per-asset download
   failures, with or without branding, the durations of the visual_inputs
   handed to build_ffmpeg_command sum to at least the probed voiceover
   duration. *)
C1_TimelineCoversVoiceover ==
    (V19 /\ (pc = "build" \/ Built)) =>
        SumDur(visual_inputs) >= voiceover_duration

(* C1 witness: image segments whose downloads failed, a branding slide, and a
   total that the reconciliation had to raise. *)
C1_Witness ==
    /\ Built
    /\ Mode(req) = "segments"
    /\ slide.drawn
    /\ visual_inputs[1].path = BlackImg
    /\ SumDur(visual_inputs) = voiceover_duration + SafetyMargin

(* C2: once the visual inputs are processed the timeline is never empty, the
   command built from it binds at least one visual input, and when no field
   supplies a visual source the primary content is exactly one black image
   lasting the voiceover duration. *)
C2_TimelineNeverEmpty ==
    (V19 /\ Did("visuals")) =>
        /\ visual_inputs # <<>>
        /\ Built => Cardinality(InputIdxs(cmd)) >= 2
        /\ Mode(req) = "none" =>
            Primary(visual_inputs) = <<Visual("image", BlackImg, voiceover_duration)>>

(* C2 witness: a request without any visual source, with branding, compiled. *)
C2_Witness ==
    /\ Built
    /\ Mode(req) = "none"
    /\ slide.drawn
    /\ Len(visual_inputs) = 2

(* C3: a run of render_video that has ended, by return or by any exception
   of the try block, has removed its job directory. *)
C3_JobDirRemoved ==
    (V19 /\ Terminal) => (~job_dir /\ Did("cleanup"))

(* C3 witness: the compositor timed out and the directory is gone. *)
C3_Witness ==
    /\ V19 /\ pc = "Failed"
    /\ error = RunTimedOut
    /\ ~job_dir

(* C4: when the voiceover cannot be fetched or decoded the job fails at once:
   nothing else is resolved, no timeline is built, no command is built and the
   compositor is not run; an empty, "undefined" or malformed descriptor always
   fails. *)
VoiceoverFailed == V19 /\ Did("voiceover") /\ voiceover_path = NoPath
C4_VoiceoverFailureIsFatal ==
    /\ (V19 /\ Did("voiceover")
            /\ req.voiceover_url \in {NoUrl, "undefined", "UNDEFINED", "data:bad"})
        => VoiceoverFailed
    /\ VoiceoverFailed =>
        /\ Failing
        /\ phases \in {<<"voiceover">>, <<"voiceover", "cleanup">>}
        /\ voiceover_duration = Unset
        /\ music_path = NoPath /\ subtitles_path = NoPath /\ logo_path = NoPath
        /\ visual_inputs = <<>> /\ slide = NoSlide
        /\ cmd = <<>> /\ result = NoResult /\ video_url = None

(* C4 witness: a network error on the voiceover URL ended the job. *)
C4_Witness ==
    /\ V19 /\ pc = "Failed"
    /\ req.voiceover_url = "http:"
    /\ VoiceoverFailed

(* C5: a failed download of the music, the subtitles or the logo is never the
   error of a failed job; the asset is absent from then on: the command has no
   music input and no side-chain or mix stage, no subtitle stage, and the
   slide carries no logo. *)
MusicFailed == V19 /\ Did("music") /\ req.music_url # NoUrl /\ music_path = NoPath
SubsFailed == V19 /\ Did("subtitles") /\ req.subtitles_url # NoUrl
                /\ subtitles_path = NoPath
LogoFailed == V19 /\ Did("logo") /\ PrimaryLogoUrl(req) # NoUrl /\ logo_path = NoPath
C5_OptionalAssetsNeverFatal ==
    /\ (V19 /\ Did("music") /\ req.music_url = "undefined") => MusicFailed
    /\ (V19 /\ Did("subtitles") /\ req.subtitles_url = "undefined") => SubsFailed
    /\ (V19 /\ pc \in {"subtitles", "logo", "visuals"}) => error = NoError
    /\ (V19 /\ error.msg = "download_file") => VoiceoverFailed
    /\ (Built /\ MusicFailed) =>
        /\ Cardinality(InputIdxs(cmd)) = 1 + Len(visual_inputs)
        /\ \A i \in DOMAIN cmd : cmd[i].flag # "-stream_loop"
        /\ ~HasFilter(cmd, "sidechaincompress") /\ ~HasFilter(cmd, "amix")
    /\ (Built /\ SubsFailed) => ~HasFilter(cmd, "subtitles")
    /\ (V19 /\ slide.drawn /\ LogoFailed) => ~slide.logo

(* C5 witness: all three optional downloads failed and the job succeeded. *)
C5_Witness ==
    /\ V19 /\ pc = "Succeeded"
    /\ MusicFailed /\ SubsFailed /\ LogoFailed
    /\ slide.drawn

(* C6: in image-segment mode the timeline has one image entry per declared
   segment, in order, and every entry, a black placeholder included, lasts
   max(end - start, 0.1) of its segment. *)
C6_PlaceholderKeepsDuration ==
    (V19 /\ pc = "slide" /\ Mode(req) = "segments") =>
        /\ Len(visual_inputs) = Len(req.segments)
        /\ \A i \in DOMAIN visual_inputs :
            /\ visual_inputs[i].type = "image"
            /\ visual_inputs[i].path \in {BlackImg, Path("image.png", i - 1)}
            /\ visual_inputs[i].duration =
                Max(req.segments[i].end - req.segments[i].start, MinSegDur)

(* C7: with a music path, the graph of either builder has a side-chain
   compression stage and a two-input mix stage with duration=first whose
   first input comes from the voiceover, and the mapped audio is the output
   of that mix stage. *)
MusicGraphOk(c) ==
    /\ HasFilter(c, "sidechaincompress")
    /\ \E k \in StagesWith(c, "amix") :
        /\ \E f \in DOMAIN Stages(c)[k].chain :
            /\ Stages(c)[k].chain[f].name = "amix"
            /\ Stages(c)[k].chain[f].args = [inputs |-> 2, duration |-> "first"]
        /\ Len(Stages(c)[k].ins) = 2
        /\ Origins(c, Stages(c)[k].ins[1]) = {InPad(0, ":a")}
        /\ <<AudioMap(c)>> = Stages(c)[k].outs
C7_MusicIsDuckedAndMixed ==
    /\ (Built /\ music_path # NoPath) => MusicGraphOk(cmd)
    /\ (script = "render" /\ r_cmd # <<>> /\ r_in.music_path # NoPath)
        => MusicGraphOk(r_cmd)

(* C8: without a music path, the command of either builder binds only the
   voiceover and the visuals, has no side-chain and no mix stage, maps the
   output label of the stage that reads the voiceover, and reads no label
   that no stage writes. *)
VoiceOnlyGraphOk(c, nvis) ==
    /\ Cardinality(InputIdxs(c)) = 1 + nvis
    /\ ~HasFilter(c, "sidechaincompress") /\ ~HasFilter(c, "amix")
    /\ \E k \in DOMAIN Stages(c) :
        /\ Stages(c)[k].ins = <<InPad(0, ":a")>>
        /\ Stages(c)[k].outs = <<AudioMap(c)>>
    /\ \A l \in LabelsRead(c) :
        /\ IsPad(l) \/ l \in LabelsWritten(c)
        /\ IsPad(l) => l.idx < Cardinality(InputIdxs(c))
        /\ l.name = ":a" => l.idx = 0
RenderNumVisuals ==
    IF Len(r_in.video_paths) > 0 THEN Len(r_in.video_paths) ELSE Len(r_in.image_paths)
C8_NoMusicNoMixStages ==
    /\ (Built /\ music_path = NoPath) => VoiceOnlyGraphOk(cmd, Len(visual_inputs))
    /\ (script = "render" /\ r_cmd # <<>> /\ r_in.music_path = NoPath)
        => VoiceOnlyGraphOk(r_cmd, RenderNumVisuals)

(* C8 witness: a command compiled after the music was requested and lost. *)
C8_Witness ==
    /\ Built /\ MusicFailed
    /\ subtitles_path # NoPath
    /\ AudioMap(cmd) = Label("aout", 0)

(* C9: every command built carries exactly one output -t, and its value is
   the sum of the durations of the reconciled timeline. *)
C9_OneOutputClamp ==
    Built =>
        /\ Cardinality(OutputClampIdxs(cmd)) = 1
        /\ \A i \in OutputClampIdxs(cmd) : cmd[i].arg = SumDur(visual_inputs)

(* C9 witness: music and subtitles present, and a timeline the reconciliation
   extended. *)
C9_Witness ==
    /\ Built
    /\ music_path # NoPath /\ subtitles_path # NoPath
    /\ total_visual_dur = voiceover_duration + SafetyMargin
    /\ Len(visual_inputs) >= 2

(* C10: a non-zero exit and a timeout of the compositor both end the job
   Failed, with different errors, the non-zero exit carrying the last 500
   characters of stderr; neither is followed by validation, upload or inline
   encoding. *)
C10_RenderFailureIsFatal ==
    V19 =>
        /\ (Did("run") /\ result.returncode = Unset) => error = RunTimedOut
        /\ result.returncode = 1 =>
            /\ error = Exception("Exception", "FFmpeg failed",
                                 Min(result.stderr_len, StderrTail))
            /\ error # RunTimedOut
        /\ (Did("run") /\ result.returncode # 0) =>
            /\ Failing
            /\ ~Did("validate") /\ ~Did("upload")
            /\ result.probe = "unprobed" /\ result.cloudinary = "unread"
            /\ video_url = None

(* C10 witness: a failed run whose stderr was longer than the tail kept. *)
C10_Witness ==
    /\ V19 /\ pc = "Failed"
    /\ result.returncode = 1
    /\ result.stderr_len > StderrTail
    /\ error.tail = StderrTail

(* C11: after a render that exited with code 0, the job ends Failed, uploads
   nothing and returns no artifact whenever the output file is missing, is
   smaller than 1000 bytes, or its re-probe fails or reports no valid
   container. *)
OutputInvalid ==
    \/ result.out_size = Unset
    \/ result.out_size < MinOutputSize
    \/ result.probe \in {"invalid", "failed"}
C11_InvalidOutputIsFatal ==
    (V19 /\ result.returncode = 0 /\ Did("validate") /\ OutputInvalid) =>
        /\ Failing
        /\ ~Did("upload")
        /\ video_url = None

(* C12: render_video returns a result only after the compositor exited with
   code 0 and the output passed the existence and size checks of step 10; the
   returned video_url is the hosted URL when CLOUDINARY_URL is set and the
   inline base64 data URI when it is not, and a run produces one of the two or
   neither, never both. *)
C12_ReturnOnlyAfterValidRender ==
    V19 =>
        /\ pc = "Succeeded" =>
            /\ error = NoError
            /\ video_url # None
            /\ Did("run") /\ Did("validate") /\ Did("upload")
        /\ pc = "Failed" => video_url = None
        /\ video_url # None =>
            /\ result.returncode = 0
            /\ result.out_size # Unset /\ result.out_size >= MinOutputSize
            /\ result.probe # "unprobed"
            /\ result.cloudinary \in {"set", "unset"}
            /\ result.cloudinary = "set" =>
                    video_url = "https://res.cloudinary.com/re_job"
            /\ result.cloudinary = "unset" => video_url = "data:video/mp4;base64"

(* C12 witness: a run with an upload target returned the hosted URL. *)
C12_Witness ==
    /\ V19 /\ pc = "Succeeded"
    /\ result.cloudinary = "set"
    /\ result.out_size = MinOutputSize
    /\ video_url = "https://res.cloudinary.com/re_job"

(* C13: every entry of the timeline has a duration greater than 0, from the
   moment the visual inputs are processed to the end of the run, in every
   input mode and for every probed voiceover duration. *)
C13_DurationsArePositive ==
    (V19 /\ Did("visuals")) =>
        \A i \in DOMAIN visual_inputs : visual_inputs[i].duration > 0

(* C13 witness: a fetched segment whose window has end <= start, compiled
   with the floor as its duration. *)
C13_Witness ==
    /\ Built
    /\ Mode(req) = "segments"
    /\ \E i \in DOMAIN req.segments :
        /\ req.segments[i].end <= req.segments[i].start
        /\ visual_inputs[i].path = Path("image.png", i - 1)
        /\ visual_inputs[i].duration = MinSegDur

(* C14: with branding, the timeline handed to build_ffmpeg_command ends with
   exactly one conclusion-slide entry, after all primary content, lasting the
   fixed 4 s; without branding it holds no slide entry. *)
SlideIdxs(inputs) == {i \in DOMAIN inputs : inputs[i].path = SlidePath}
C14_OneFixedSlideLast ==
    Built =>
        /\ req.branding.given =>
            /\ SlideIdxs(visual_inputs) = {Len(visual_inputs)}
            /\ Len(visual_inputs) >= 2
            /\ visual_inputs[Len(visual_inputs)] = Visual("image", SlidePath, SlideDur)
        /\ ~req.branding.given => SlideIdxs(visual_inputs) = {}

(* C15: in single-clip mode with the clip fetched, the primary timeline is one
   video entry lasting the voiceover duration, and the command binds that
   clip with looped playback: -stream_loop before its -i, or a loop filter in
   the stage that reads it. *)
LoopedInput(c, i) ==
    \/ i > 1 /\ c[i - 1].flag = "-stream_loop"
    \/ \E k \in StagesWith(c, "loop") :
        \E j \in DOMAIN Stages(c)[k].ins :
            /\ Stages(c)[k].ins[j].name = ":v"
            /\ Stages(c)[k].ins[j].idx = Cardinality({n \in InputIdxs(c) : n < i})
C15_SingleClipLooped ==
    (Built /\ Mode(req) = "single" /\ visual_inputs[1].type = "video") =>
        /\ Primary(visual_inputs) =
                <<Visual("video", Path("source_video.mp4", 0), voiceover_duration)>>
        /\ \E i \in InputIdxs(cmd) :
            /\ cmd[i].arg = Path("source_video.mp4", 0)
            /\ LoopedInput(cmd, i)

(* C16: any two runs of render_video in flight at the same time have distinct
   job directories, no run reads a file another run wrote, and no run loses
   its scratch files to the cleanup of another. *)
C16_JobDirsPrivate ==
    script = "jobs" =>
        /\ \A w1, w2 \in Workers :
            (w1 # w2 /\ InFlight(w1) /\ InFlight(w2)) =>
                workers[w1].job_id # workers[w2].job_id
        /\ \A w \in Workers : workers[w].read \subseteq {w}
        /\ \A w \in Workers : workers[w].error = None

(* C17: for every branding value, create_conclusion_slide writes the slide and
   returns: once the slide step has run for a request with branding, the
   slide is drawn and the job has not failed in create_conclusion_slide. *)
C17_SlideNeverRaises ==
    (V19 /\ Did("slide") /\ req.branding.given) =>
        /\ slide.drawn
        /\ error.msg # "create_conclusion_slide"

(* C18: in beam_ffmpeg_render.py with image segments, when the voiceover is
   longer than the windows of the segments add up to, the rendered output
   lasts at least as long as the voiceover.  The output of the compositor
   ends at its -t when it has one and a stream is still running, with
   -shortest at the end of its shortest stream, else at the end of its
   longest; looped music never ends. *)
RenderVideoLen == SumDur([i \in DOMAIN r_in.image_paths |->
                            [duration |-> RenderImageDur(r_in.image_paths[i])]])
RenderOutputLen ==
    LET clamps == OutputClampIdxs(r_cmd)
        t == r_cmd[CHOOSE i \in clamps : TRUE].arg
        music == r_in.music_path # NoPath
        vo == r_in.voiceover_duration
    IN  IF clamps # {}
        THEN IF music THEN t ELSE Min(t, Max(RenderVideoLen, vo))
        ELSE IF music THEN RenderVideoLen ELSE Min(RenderVideoLen, vo)
C18_RenderCoversVoiceover ==
    (/\ script = "render" /\ r_cmd # <<>>
     /\ r_in.video_paths = <<>> /\ r_in.image_paths # <<>>
     /\ r_in.voiceover_duration > RenderSumWindows(r_in.image_paths))
        => RenderOutputLen >= r_in.voiceover_duration

(* C19: whenever the raw total T of the durations is strictly less than the
   voiceover duration V, the reconciliation step sets the last duration to
   its previous value plus (V - T) + 0.5, and the reconciled total, also the
   one it records, is exactly V + 0.5. *)
ReconcileStep == V19 /\ pc = "reconcile" /\ pc' = "build"
C19_ReconcileAddsShortfallPlusMargin ==
    [][(ReconcileStep /\ SumDur(visual_inputs) < voiceover_duration) =>
        /\ visual_inputs'[Len(visual_inputs)].duration =
                visual_inputs[Len(visual_inputs)].duration
                + (voiceover_duration - SumDur(visual_inputs)) + SafetyMargin
        /\ SumDur(visual_inputs') = voiceover_duration + SafetyMargin
        /\ total_visual_dur' = voiceover_duration + SafetyMargin]_vars

(* C19 witness: two image segments without branding, the second fetched and
   lengthened beyond its window by the reconciliation. *)
C19_Witness ==
    /\ V19 /\ pc = "build"
    /\ Mode(req) = "segments" /\ ~slide.drawn
    /\ Len(visual_inputs) = 2
    /\ visual_inputs[2].path = Path("image.png", 1)
    /\ visual_inputs[2].duration >
            Max(req.segments[2].end - req.segments[2].start, MinSegDur)
    /\ SumDur(visual_inputs) = voiceover_duration + SafetyMargin

(* C20: the reconciliation step keeps the number of entries, their order,
   kinds and sources, and the duration of every entry but the last; it never
   lowers a duration; and it changes nothing when the raw total is already at
   least the voiceover duration. *)
C20_ReconcileFrame ==
    [][ReconcileStep =>
        /\ Len(visual_inputs') = Len(visual_inputs)
        /\ \A i \in DOMAIN visual_inputs :
            /\ visual_inputs'[i].type = visual_inputs[i].type
            /\ visual_inputs'[i].path = visual_inputs[i].path
            /\ visual_inputs'[i].duration >= visual_inputs[i].duration
            /\ i < Len(visual_inputs) =>
                    visual_inputs'[i].duration = visual_inputs[i].duration
        /\ SumDur(visual_inputs) >= voiceover_duration =>
                visual_inputs' = visual_inputs]_vars

(* C20 witness: a timeline of a segment and the slide that was longer than the
   voiceover and left the reconciliation as it entered it. *)
C20_Witness ==
    /\ V19 /\ pc = "build"
    /\ Len(visual_inputs) >= 2
    /\ slide.drawn
    /\ visual_inputs[Len(visual_inputs)].duration = SlideDur
    /\ total_visual_dur > voiceover_duration + SafetyMargin

(* C21: in every run of render_video the phases performed so far are an
   initial part of the one order voiceover, probe, optional assets, timeline,
   slide, reconciliation, compile, run, validate, upload, followed by the
   cleanup once the run is over: none starts before its predecessor is done
   and none is repeated.  A run that can take no further step is Succeeded or
   Failed, and a Succeeded run has performed every phase. *)
PhaseOrder ==
    <<"voiceover", "probe", "music", "subtitles", "logo", "visuals", "slide",
      "reconcile", "build", "run", "validate", "upload">>
C21_PhasesInOrder ==
    V19 =>
        /\ \E k \in 0..Len(PhaseOrder) :
            \/ phases = SubSeq(PhaseOrder, 1, k)
            \/ phases = SubSeq(PhaseOrder, 1, k) \o <<"cleanup">>
        /\ Did("cleanup") <=> Terminal
        /\ ~ENABLED Next => Terminal
        /\ pc = "Succeeded" =>
            /\ phases = PhaseOrder \o <<"cleanup">>
            /\ error = NoError
        /\ pc = "Failed" => error # NoError

(* C21 witness: a run with branding, music and subtitles that went through
   every phase and succeeded. *)
C21_Witness ==
    /\ V19 /\ pc = "Succeeded"
    /\ phases = PhaseOrder \o <<"cleanup">>
    /\ slide.drawn /\ music_path # NoPath /\ subtitles_path # NoPath

(* C22: for every timeline compiled by build_ffmpeg_command and every native
   length of its video clips, the stream the concat stage produces is as long
   as the durations of the timeline add up to.  The stream of a stage is what
   its input and its chain make it: a video stage (scale, pad, setsar,
   setpts, format) keeps the native length of the clip; an image bound with
   -loop 1 -t d delivers 25 frames a second for d seconds and zoompan emits
   its d= frames for each of them, at 25 frames a second. *)
ClipLens == {20, 60, 200}
StreamLen(vis, native) ==
    IF vis.type = "video" THEN native
    ELSE vis.duration * NumFrames(vis.duration)
ConcatLen(inputs, native) ==
    SumDur([i \in DOMAIN inputs |-> [duration |-> StreamLen(inputs[i], native[i])]])
C22_ConcatLengthIsTimelineSum ==
    Built =>
        \A native \in [DOMAIN visual_inputs -> ClipLens] :
            ConcatLen(visual_inputs, native) = SumDur(visual_inputs)

(* C23: in the command of either builder a subtitle stage exists if and only
   if a subtitles path is given.  When it exists there is one, it reads the
   output of the stage before it, into which every visual input flows, no
   other stage reads that output, and its own output is the mapped video.
   When it does not exist the mapped video is the output of the last video
   stage, into which every visual input flows. *)
VisualPads(c, music) ==
    {InPad(i, ":v") : i \in (IF music # NoPath THEN 2 ELSE 1) .. (Cardinality(InputIdxs(c)) - 1)}
Readers(c, l) ==
    {k \in DOMAIN Stages(c) : \E j \in DOMAIN Stages(c)[k].ins : Stages(c)[k].ins[j] = l}
SubtitleGraphOk(c, music, subs) ==
    /\ (StagesWith(c, "subtitles") # {}) <=> (subs # NoPath)
    /\ subs # NoPath =>
        /\ Cardinality(StagesWith(c, "subtitles")) = 1
        /\ \A k \in StagesWith(c, "subtitles") :
            /\ k > 1
            /\ Stages(c)[k].ins = Stages(c)[k - 1].outs
            /\ Len(Stages(c)[k].ins) = 1
            /\ Origins(c, Stages(c)[k].ins[1]) = VisualPads(c, music)
            /\ Readers(c, Stages(c)[k].ins[1]) = {k}
            /\ Stages(c)[k].chain[1].args.file = subs
            /\ Stages(c)[k].outs = <<VideoMap(c)>>
    /\ subs = NoPath =>
        /\ VideoMap(c) \in LabelsWritten(c)
        /\ Origins(c, VideoMap(c)) = VisualPads(c, music)
        /\ Readers(c, VideoMap(c)) = {}
C23_SubtitlesBurnedLast ==
    /\ Built => SubtitleGraphOk(cmd, music_path, subtitles_path)
    /\ (script = "render" /\ r_cmd # <<>>)
        => SubtitleGraphOk(r_cmd, r_in.music_path, r_in.subtitles_path)

(* C23 witness: subtitles burned into the concatenation of a segment and the
   slide, with music present. *)
C23_Witness ==
    /\ Built
    /\ subtitles_path # NoPath /\ music_path # NoPath
    /\ Len(visual_inputs) >= 2
    /\ VideoMap(cmd) = Label("vsub", 0)

(* C24: in the music branch of the v19 builder the music is resampled and
   attenuated in a stage of its own, then side-chain compressed as the main
   (first) input with a copy of the normalized voiceover as the key (second)
   input, and the mix reads the voiceover copy that was not compressed and
   the ducked music only: the stages come in that order and the un-ducked
   music is read by the compressor alone. *)
Writers(c, l) ==
    {k \in DOMAIN Stages(c) : \E o \in DOMAIN Stages(c)[k].outs : Stages(c)[k].outs[o] = l}
ChainNames(c, k) == {Stages(c)[k].chain[f].name : f \in DOMAIN Stages(c)[k].chain}
DuckingChainOk(c) ==
    \E m, sc, mix \in DOMAIN Stages(c) :
        /\ m < sc /\ sc < mix
        /\ Stages(c)[m].ins = <<InPad(1, ":a")>>
        /\ ChainNames(c, m) = {"aresample", "volume"}
        /\ StagesWith(c, "sidechaincompress") = {sc}
        /\ Len(Stages(c)[sc].ins) = 2
        /\ <<Stages(c)[sc].ins[1]>> = Stages(c)[m].outs
        /\ Origins(c, Stages(c)[sc].ins[2]) = {InPad(0, ":a")}
        /\ \A k \in Writers(c, Stages(c)[sc].ins[2]) :
                {"aresample", "volume", "asplit"} \subseteq ChainNames(c, k)
        /\ Readers(c, Stages(c)[sc].ins[1]) = {sc}
        /\ Readers(c, InPad(1, ":a")) = {m}
        /\ StagesWith(c, "amix") = {mix}
        /\ Len(Stages(c)[mix].ins) = 2
        /\ <<Stages(c)[mix].ins[2]>> = Stages(c)[sc].outs
        /\ Origins(c, Stages(c)[mix].ins[1]) = {InPad(0, ":a")}
        /\ Stages(c)[mix].ins[1] # Stages(c)[sc].ins[2]
        /\ sc \notin Writers(c, Stages(c)[mix].ins[1])
C24_DuckingChainOrder ==
    (Built /\ music_path # NoPath) => DuckingChainOk(cmd)

(* C24 witness: a command with music, compiled for a timeline of clips. *)
C24_Witness ==
    /\ Built /\ music_path # NoPath
    /\ Mode(req) = "clips"
    /\ HasFilter(cmd, "sidechaincompress")
    /\ AudioMap(cmd) = Label("aout", 0)

(* C25: the primary entries of the timeline come from exactly one field of the
   request, chosen by priority: animated_video_urls when it is not empty, else
   animated_video_url when set, else segments when not empty, else the black
   fallback; there is one entry per declared input of that field, in declared
   order, each the fetched asset or its black placeholder, and the fields of
   lower priority add nothing. *)
C25_OneModeByPriority ==
    (V19 /\ Did("visuals")) =>
        LET p == Primary(visual_inputs)
            urls == req.animated_video_urls
        IN  IF Len(urls) > 0
            THEN /\ Len(p) = Len(urls)
                 /\ \A i \in DOMAIN p :
                        IF urls[i] # NoUrl /\ IsTurbo(urls[i])
                        THEN p[i].path \in {Path("visual.png", i - 1), BlackImg}
                        ELSE p[i].path \in {Path("visual.mp4", i - 1), BlackImg}
            ELSE IF req.animated_video_url # NoUrl
            THEN /\ Len(p) = 1
                 /\ p[1].path \in {Path("source_video.mp4", 0), BlackImg}
            ELSE IF Len(req.segments) > 0
            THEN /\ Len(p) = Len(req.segments)
                 /\ \A i \in DOMAIN p : p[i].path \in {Path("image.png", i - 1), BlackImg}
            ELSE /\ Len(p) = 1
                 /\ p[1].path = BlackImg

(* C25 witness: a request that supplies all three fields; both clips of the
   first were fetched and nothing else is in the timeline. *)
C25_Witness ==
    /\ V19 /\ pc = "Succeeded"
    /\ Len(req.animated_video_urls) = 2
    /\ req.animated_video_url # NoUrl /\ Len(req.segments) > 0
    /\ ~slide.drawn
    /\ Len(visual_inputs) = 2
    /\ \A i \in DOMAIN visual_inputs : visual_inputs[i].path # BlackImg

(* C26: the lines wrap_text returns hold, read in order, exactly the words of
   the text; no line is empty; every line measures at most the budget or is
   a single word. *)
C26_WrapKeepsWords ==
    (script = "wrap" /\ pc = "w_done") =>
        /\ Flatten(w_lines) = w_in.text
        /\ \A i \in DOMAIN w_lines :
            /\ w_lines[i] # <<>>
            /\ \/ Width(w_in.font, w_lines[i]) <= w_in.max_width
               \/ Len(w_lines[i]) = 1

(* C26 witness: a text wrapped into a line of two words and a line that is one
   word wider than the budget. *)
C26_Witness ==
    /\ script = "wrap" /\ pc = "w_done"
    /\ \E i, j \in DOMAIN w_lines :
        /\ Len(w_lines[i]) = 2
        /\ Len(w_lines[j]) = 1
        /\ Width(w_in.font, w_lines[j]) > w_in.max_width

(* C27: every command of the beam_ffmpeg_render.py builder bounds its output:
   it has an output -t, or it has -shortest and one of the two mapped streams
   is finite.  A stream is finite when no input it is computed from is bound
   with -stream_loop -1 (the mix of that builder runs for its longest input);
   a looped image is cut by its input -t and the black source by d=10. *)
InputAt(c, n) == CHOOSE i \in InputIdxs(c) : Cardinality({j \in InputIdxs(c) : j < i}) = n
InputLooped(c, n) == InputAt(c, n) > 1 /\ c[InputAt(c, n) - 1].flag = "-stream_loop"
StreamFinite(c, l) == \A p \in Origins(c, l) : ~InputLooped(c, p.idx)
HasShortest(c) == \E i \in DOMAIN c : c[i].flag = "-shortest"
C27_RenderOutputBounded ==
    (script = "render" /\ r_cmd # <<>>) =>
        \/ OutputClampIdxs(r_cmd) # {}
        \/ /\ HasShortest(r_cmd)
           /\ \/ StreamFinite(r_cmd, VideoMap(r_cmd))
              \/ StreamFinite(r_cmd, AudioMap(r_cmd))

(* C28: whatever fetches of render_video (beam_ffmpeg_render.py) fail, the
   command handed to the compositor binds no absent path: every -i names a
   file, the voiceover first. *)
C28_NoAbsentPathInCommand ==
    (script = "render" /\ r_cmd # <<>>) =>
        /\ \A i \in InputIdxs(r_cmd) : r_cmd[i].arg # NoPath
        /\ r_cmd[InputAt(r_cmd, 0)].arg = Path("voiceover.mp3", 0)

(* C29: every command of the v19 builder is well-formed: the voiceover is
   input 0, the music, if any, input 1, the i-th timeline entry is input
   1 + [music] + i and the i-th stage reads exactly that input; every label a
   stage or -map reads is written by exactly one stage, every label written
   is read exactly once, and the concat stage reads the n normalization
   outputs in timeline order, n being the number of entries. *)
RECURSIVE CountIn(_, _)
CountIn(seq, l) ==
    IF seq = <<>> THEN 0
    ELSE (IF Head(seq) = l THEN 1 ELSE 0) + CountIn(Tail(seq), l)
RECURSIVE ReadsIn(_, _)
ReadsIn(stages, l) ==
    IF stages = <<>> THEN 0
    ELSE CountIn(Head(stages).ins, l) + ReadsIn(Tail(stages), l)
RECURSIVE WritesIn(_, _)
WritesIn(stages, l) ==
    IF stages = <<>> THEN 0
    ELSE CountIn(Head(stages).outs, l) + WritesIn(Tail(stages), l)
MapCount(c, l) == Cardinality({i \in MapIdxs(c) : c[i].arg = l})
C29_GraphWellFormed ==
    Built =>
        LET start == IF music_path # NoPath THEN 2 ELSE 1
            n == Len(visual_inputs)
            st == Stages(cmd)
            read == UNION {Range(st[k].ins) : k \in DOMAIN st}
                    \cup {cmd[i].arg : i \in MapIdxs(cmd)}
            written == UNION {Range(st[k].outs) : k \in DOMAIN st}
        IN  /\ Cardinality(InputIdxs(cmd)) = start + n
            /\ cmd[InputAt(cmd, 0)].arg = voiceover_path
            /\ music_path # NoPath => cmd[InputAt(cmd, 1)].arg = music_path
            /\ \A i \in 1..n :
                /\ cmd[InputAt(cmd, start + i - 1)].arg = visual_inputs[i].path
                /\ st[i].ins = <<InPad(start + i - 1, ":v")>>
                /\ st[i].outs = <<Label("v", i - 1)>>
            /\ \A l \in read :
                IF IsPad(l) THEN l.idx < start + n /\ ReadsIn(st, l) = 1
                ELSE WritesIn(st, l) = 1
            /\ \A l \in written : ReadsIn(st, l) + MapCount(cmd, l) = 1
            /\ Cardinality(MapIdxs(cmd)) = 2
            /\ \A k \in DOMAIN st : (st[k].chain[1].name = "concat") <=> (k = n + 1)
            /\ st[n + 1].ins = [i \in 1..n |-> Label("v", i - 1)]
            /\ st[n + 1].chain[1].args.n = n

(* C29 witness: music, subtitles, two clips and the slide in one command. *)
C29_Witness ==
    /\ Built
    /\ music_path # NoPath /\ subtitles_path # NoPath
    /\ Len(visual_inputs) = 3
    /\ cmd[InputAt(cmd, 4)].arg = SlidePath

(* C30: in the command the builder of beam_ffmpeg_render.py makes from a
   non-empty list of images (and no videos), the -t placed on the output
   equals the sum of the durations bound to the image inputs with
   -loop 1 -t, each max(end - start, 0.1), whatever the start and end
   values are, windows with end <= start included. *)
RECURSIVE BoundInputSum(_)
BoundInputSum(c) ==
    IF Len(c) < 2 THEN 0
    ELSE (IF c[1].flag = "-t" /\ c[2].flag = "-i" THEN c[1].arg ELSE 0)
         + BoundInputSum(Tail(c))
C30_ClampEqualsBoundDurations ==
    (/\ script = "render" /\ r_cmd # <<>>
     /\ r_in.video_paths = <<>> /\ r_in.image_paths # <<>>)
        => /\ Cardinality(OutputClampIdxs(r_cmd)) = 1
           /\ \A i \in OutputClampIdxs(r_cmd) : r_cmd[i].arg = BoundInputSum(r_cmd)

=============================================================================
